---- MODULE Spec2Model ----
(***************************************************************************)
(* A model of the MFIN7037 assignment scripts.                             *)
(*                                                                         *)
(*   Question 3/code/run_analysis.py : _pick_best_model, main              *)
(*   Question 3/code/data_prep.py    : fetch_all_external_factors          *)
(*   Question 1/code/Q1_*.py         : stats_table, summary_stats, main    *)
(*                                                                         *)
(* A table column is modelled by the set of rows in which its value is not *)
(* missing.  What statsmodels' OLS returns as rsquared_adj for a trial set *)
(* is a property of the data: it is drawn once per trial set from Scores   *)
(* and remembered in adjr2, so that the same data gives the same fit.      *)
(***************************************************************************)
EXTENDS Integers, Sequences, FiniteSets, TLC

VARIABLES
    \* ---- _pick_best_model -------------------------------------------------
    candidate_df,   \* column name -> set of rows with a non-missing value
    min_obs,        \* parameter min_obs
    min_factors,    \* parameter min_factors
    max_factors,    \* parameter max_factors
    adjr2,          \* trial set -> rsquared_adj of the fit on that trial set
    chosen,         \* the local list chosen
    rnd,            \* iterations of the outer loop completed
    pc,             \* "idle", "greedy", "pad", "done"
    run,            \* 1 for the first execution, 2 for the repeated one
    prev,           \* the list returned by the first execution
    \* ---- fetch_all_external_factors ---------------------------------------
    start,          \* parameter start, as a month number
    cache_dir,      \* TRUE when a cache_dir is given
    jkp_src,        \* "nodir": no data_dir; "nofile": no JKP csv; "file", "long"
    fred_file,      \* cache_dir / "fred_factors_monthly.csv", or NoFile
    aqr_file,       \* cache_dir / "aqr_factors_monthly.csv", or NoFile
    net,            \* what the network and the disk did in the last call
    fred,           \* the local table fred of the last call
    aqr,            \* the local table aqr of the last call
    out,            \* the table the last call returned
    warnings,       \* the list warnings of the last call, as printed
    fstatus,        \* "idle", "returned", "raised"
    last_ok,        \* per source, the data of its most recent successful fetch
    \* ---- the entry points (main) ------------------------------------------
    script,         \* the script that is run, "none" when none is
    files,          \* the input files that exist, as <<folder, name>>
    spc,            \* how far main has come; "done", "error" once it ended
    written,        \* the output files written so far
    data,           \* Question 1: the table the input file holds
    stats,          \* Question 1: the statistics tables computed so far
    econ_factors,   \* Question 3: main's econ_factors
    greedy_factors, \* Question 3: main's greedy_factors
    live            \* Question 3: how the HFGM block went

pickVars == <<candidate_df, min_obs, min_factors, max_factors, adjr2,
              chosen, rnd, pc, run, prev>>

fetchVars == <<start, cache_dir, jkp_src, fred_file, aqr_file, net, fred, aqr,
               out, warnings, fstatus, last_ok>>

scriptVars == <<script, files, spc, written, data, stats, econ_factors,
                greedy_factors, live>>

vars == <<pickVars, fetchVars, scriptVars>>

----------------------------------------------------------------------------
(* Bounds *)

NRows == 4
MaxScore == 1
NMonths == 3
NYears == 4
LastSpan == 1
MinPriorLen == 2
START_YEAR == 2

\* END_YEAR, one year before the last year a table can hold
END_YEAR == NYears - 1

----------------------------------------------------------------------------
(* Values shared by the sections below, and each part of the program at    *)
(* rest                                                                    *)

\* NaN in a table
NA == 0 - 1

\* pd.DataFrame(columns=["date"]), and pd.DataFrame()
EmptyFrame == [cols |-> <<>>, rows |-> <<>>]

\* A path at which no file exists
NoFile == [nofile |-> TRUE]

\* A fetch that raised has no table
NoData == [nodata |-> TRUE]

\* No call was made yet
NoCall == [fred |-> "none", aqr |-> {}, wfred |-> TRUE, waqr |-> TRUE]

\* _pick_best_model is not running.
PickIdle ==
    /\ candidate_df = <<>>
    /\ min_obs = 0
    /\ min_factors = 0
    /\ max_factors = 0
    /\ adjr2 = <<>>
    /\ chosen = <<>>
    /\ rnd = 0
    /\ pc = "idle"
    /\ run = 0
    /\ prev = <<>>

\* fetch_all_external_factors has not been called.
FetchIdle ==
    /\ start = 1
    /\ cache_dir = FALSE
    /\ jkp_src = "nodir"
    /\ fred_file = NoFile
    /\ aqr_file = NoFile
    /\ net = NoCall
    /\ fred = EmptyFrame
    /\ aqr = EmptyFrame
    /\ out = EmptyFrame
    /\ warnings = <<>>
    /\ fstatus = "idle"
    /\ last_ok = [fred |-> NoData, aqr |-> NoData]

\* No script is run.
ScriptsIdle ==
    /\ script = "none"
    /\ files = {}
    /\ spc = "idle"
    /\ written = {}
    /\ data = <<>>
    /\ stats = <<>>
    /\ econ_factors = <<>>
    /\ greedy_factors = <<>>
    /\ live = "none"

----------------------------------------------------------------------------
(* _pick_best_model *)

ALL_CANDIDATES ==
    <<"mkt_rf", "usd_ret", "dgs10_chg", "hy_oas_chg", "cmdty_ret",
      "tsmom", "val_everywhere", "mom_everywhere",
      "tsmom_eq", "tsmom_fi", "tsmom_fx", "tsmom_cm",
      "qmj_global", "bab_global">>

\* The argument all_candidates: a list of three of the names, in the order
\* of ALL_CANDIDATES.
all_candidates == <<"mkt_rf", "usd_ret", "dgs10_chg">>

Range(s) == {s[i] : i \in 1..Len(s)}

IndexOf(s, x) == CHOOSE k \in 1..Len(s) : s[k] = x

Rows == 1..NRows

None == "None"

\* rsquared_adj is a float: a number 0..MaxScore, or NaN (also standing for
\* -inf: neither is ever greater than another float).
NaN == MaxScore + 1
Scores == 0..NaN
NegInf == 0 - 1

\* ar2 >= best_r2 in place of ar2 > best_r2
FloatGe(a, b) == a # NaN /\ a >= b

\* ar2 > best_r2 on floats: false whenever ar2 is NaN.
FloatGt(a, b) == a # NaN /\ a > b

\* candidate_df[c].notna().sum()
NotnaSum(df, c) == Cardinality(df[c])

\* candidate_df[["fund_excess"] + trial].dropna(): the rows it keeps
DropnaRows(df, trial) ==
    {r \in df["fund_excess"] : \A c \in trial : r \in df[c]}

\* available = [c for c in all_candidates if c in candidate_df.columns
\*              and candidate_df[c].notna().sum() > min_obs]
IsAvailable(df, c, mo) == c \in DOMAIN df /\ NotnaSum(df, c) > mo

AvailableOf(cands, df, mo) == SelectSeq(cands, LAMBDA c : IsAvailable(df, c, mo))

Available(df, mo) == AvailableOf(all_candidates, df, mo)

\* tmp = candidate_df[["fund_excess"] + trial].dropna(); len(tmp) < min_obs,
\* with the comparison one off
TooFewRowsOffByOne(df, trial, mo) == Cardinality(DropnaRows(df, trial)) <= mo

\* tmp = candidate_df[["fund_excess"] + trial].dropna(); len(tmp) < min_obs
TooFewRows(df, trial, mo) == Cardinality(DropnaRows(df, trial)) < mo

\* The inner loop "for c in available", from position i on.
RECURSIVE BestScan(_, _, _, _, _, _, _, _)
BestScan(df, mo, fits, avail, ch, i, best_r2, best_col) ==
    IF i > Len(avail) THEN [r2 |-> best_r2, col |-> best_col]
    ELSE LET c == avail[i]
             trial == Range(ch) \cup {c}
         IN  IF c \in Range(ch)
                THEN BestScan(df, mo, fits, avail, ch, i + 1, best_r2, best_col)
             ELSE IF TooFewRows(df, trial, mo)
                THEN BestScan(df, mo, fits, avail, ch, i + 1, best_r2, best_col)
             ELSE IF FloatGt(fits[trial], best_r2)
                THEN BestScan(df, mo, fits, avail, ch, i + 1, fits[trial], c)
             ELSE BestScan(df, mo, fits, avail, ch, i + 1, best_r2, best_col)

\* The round with a stopping rule: no factor is added when the best fit of
\* the round is below the fit of the list chosen so far
BestOrStop(df, mo, fits, ch) ==
    LET b == BestScan(df, mo, fits, Available(df, mo), ch, 1, NegInf, None)
    IN  IF b.col # None /\ ch # <<>> /\ b.r2 < fits[Range(ch)]
           THEN [r2 |-> b.r2, col |-> None]
           ELSE b

\* One iteration of "for _ in range(max_factors)": best_r2, best_col = -inf, None
BestOfRound(df, mo, fits, ch) ==
    BestScan(df, mo, fits, Available(df, mo), ch, 1, NegInf, None)

\* The fallback appended to chosen in place of replacing it
AppendFallback(avail, ch, mf) ==
    IF Len(ch) < mf
       THEN ch \o (IF Len(avail) >= mf THEN SubSeq(avail, 1, mf) ELSE avail)
       ELSE ch

\* if len(chosen) < min_factors:
\*     chosen = available[:min_factors] if len(available) >= min_factors else available
MinSizeFallback(avail, ch, mf) ==
    IF Len(ch) < mf
       THEN IF Len(avail) >= mf THEN SubSeq(avail, 1, mf) ELSE avail
       ELSE ch

\* The trial sets of the round that starts with the chosen list ch whose fit
\* exists (at least one complete row).
RoundTrials(df, mo, ch) ==
    {Range(ch) \cup {c} : c \in {d \in Range(Available(df, mo)) \ Range(ch) :
                                    DropnaRows(df, Range(ch) \cup {d}) # {}}}

\* The factor columns drawn have a value in every row, or miss the first row
\* (as a pct_change or diff series does).
ColPatterns == {a..NRows : a \in 1..2}

\* The fund series starts at the first row and may end early.
FundPatterns == {1..k : k \in 0..NRows}

MinObsVals == {NRows - 2, NRows - 1}

\* <<min_factors, max_factors>>: main's call (3, 5), a cap that binds (2, 2),
\* and a minimum above the cap (3, 2).
FactorLimits == {<<3, 5>>, <<2, 2>>, <<3, 2>>}

PickInit ==
    /\ \E cols \in SUBSET Range(all_candidates) :
         \E t \in [cols -> ColPatterns] :
           \E fe \in FundPatterns :
             candidate_df = [c \in cols \cup {"fund_excess"} |->
                                IF c = "fund_excess" THEN fe ELSE t[c]]
    /\ min_obs \in MinObsVals
    /\ \E lim \in FactorLimits : min_factors = lim[1] /\ max_factors = lim[2]
    /\ adjr2 = <<>>
    /\ chosen = <<>>
    /\ rnd = 0
    /\ pc = "greedy"
    /\ run = 1
    /\ prev = <<>>
    /\ FetchIdle
    /\ ScriptsIdle

\* One iteration of the outer loop (lines 70-84).
PickRound ==
    /\ pc = "greedy"
    /\ rnd < max_factors
    /\ LET need == RoundTrials(candidate_df, min_obs, chosen) \ DOMAIN adjr2
       IN  \E f \in [need -> Scores] :
             LET fits == [t \in DOMAIN adjr2 \cup need |->
                             IF t \in need THEN f[t] ELSE adjr2[t]]
                 best == BestOfRound(candidate_df, min_obs, fits, chosen)
             IN  /\ adjr2' = fits
                 /\ IF best.col = None
                       THEN /\ pc' = "pad"
                            /\ UNCHANGED <<chosen, rnd>>
                       ELSE /\ chosen' = Append(chosen, best.col)
                            /\ rnd' = rnd + 1
                            /\ pc' = IF rnd + 1 = max_factors THEN "pad" ELSE "greedy"
    /\ UNCHANGED <<candidate_df, min_obs, min_factors, max_factors, run, prev>>
    /\ UNCHANGED <<fetchVars, scriptVars>>

\* Lines 85-87: the minimum-size fallback and the return.
PickReturn ==
    /\ pc = "pad"
    /\ chosen' = MinSizeFallback(Available(candidate_df, min_obs), chosen, min_factors)
    /\ pc' = "done"
    /\ UNCHANGED <<candidate_df, min_obs, min_factors, max_factors, adjr2, rnd, run, prev>>
    /\ UNCHANGED <<fetchVars, scriptVars>>

\* chosen left holding what the previous call put in it
StaleChosen == chosen

\* chosen: list[str] = []
FreshChosen == <<>>

\* A second execution on the same arguments.
PickAgain ==
    /\ pc = "done"
    /\ run = 1
    /\ prev' = chosen
    /\ run' = 2
    /\ chosen' = FreshChosen
    /\ rnd' = 0
    /\ pc' = "greedy"
    /\ UNCHANGED <<candidate_df, min_obs, min_factors, max_factors, adjr2>>
    /\ UNCHANGED <<fetchVars, scriptVars>>

PickNext == PickRound \/ PickReturn \/ PickAgain

----------------------------------------------------------------------------
(* Tables (pandas DataFrames with a date column)                           *)
(*                                                                         *)
(* A table is [cols, rows]: cols the columns other than date, in order;    *)
(* rows a sequence of [date, v], date a month number and v the row's value *)
(* in each column, a number or NA (NaN).                                   *)

\* DataFrame.empty
IsEmpty(t) == Len(t.rows) = 0

\* df[df["date"] >= pd.Timestamp(start)]
FilterFrom(t, s) == [t EXCEPT !.rows = SelectSeq(t.rows, LAMBDA r : r.date >= s)]

RECURSIVE InsertByDate(_, _)
InsertByDate(sorted, r) ==
    IF sorted = <<>> THEN <<r>>
    ELSE IF Head(sorted).date <= r.date
            THEN <<Head(sorted)>> \o InsertByDate(Tail(sorted), r)
            ELSE <<r>> \o sorted

RECURSIVE SortRows(_)
SortRows(rows) ==
    IF rows = <<>> THEN <<>>
    ELSE InsertByDate(SortRows(SubSeq(rows, 1, Len(rows) - 1)), rows[Len(rows)])

\* df.sort_values("date").reset_index(drop=True)
SortByDate(t) == [t EXCEPT !.rows = SortRows(t.rows)]

DatesOf(t) == {t.rows[i].date : i \in 1..Len(t.rows)}

RECURSIVE SortedSeq(_)
SortedSeq(S) ==
    IF S = {} THEN <<>>
    ELSE LET m == CHOOSE x \in S : \A y \in S : x <= y
         IN  <<m>> \o SortedSeq(S \ {m})

RowsAt(t, d) == SelectSeq(t.rows, LAMBDA r : r.date = d)

NARow(cols) == [c \in Range(cols) |-> NA]

\* The rows of left.merge(right, on="date", how="outer") with date d.
MergeAt(l, r, d) ==
    LET L == RowsAt(l, d)
        R == RowsAt(r, d)
    IN  IF L = <<>>
           THEN [i \in 1..Len(R) |-> [date |-> d, v |-> NARow(l.cols) @@ R[i].v]]
        ELSE IF R = <<>>
           THEN [i \in 1..Len(L) |-> [date |-> d, v |-> L[i].v @@ NARow(r.cols)]]
        ELSE [k \in 1..(Len(L) * Len(R)) |->
                 [date |-> d,
                  v |-> L[((k - 1) \div Len(R)) + 1].v @@ R[((k - 1) % Len(R)) + 1].v]]

RECURSIVE MergeOver(_, _, _)
MergeOver(l, r, keys) ==
    IF keys = <<>> THEN <<>>
    ELSE MergeAt(l, r, Head(keys)) \o MergeOver(l, r, Tail(keys))

\* left.merge(right, on="date", how="outer")
Merge(l, r) ==
    [cols |-> l.cols \o r.cols,
     rows |-> MergeOver(l, r, SortedSeq(DatesOf(l) \cup DatesOf(r)))]

----------------------------------------------------------------------------
(* CSV files: [header, lines], every cell a string *)

\* Timestamps of month ends, as to_csv writes them.
MonthEnd ==
    <<"2002-01-31", "2002-02-28", "2002-03-31", "2002-04-30", "2002-05-31",
      "2002-06-30", "2002-07-31", "2002-08-31", "2002-09-30", "2002-10-31",
      "2002-11-30", "2002-12-31">>

Digit == <<"0", "1", "2", "3", "4", "5", "6", "7", "8", "9">>

FormatDate(d) == MonthEnd[d]

\* to_csv writes NaN as the empty string and a float by its repr.
FormatFloat(x) == IF x = NA THEN "" ELSE Digit[x + 1] \o ".0"

\* pd.to_datetime(..., errors="coerce"): NaT for what is no date
ParseDate(str) ==
    IF \E d \in 1..Len(MonthEnd) : MonthEnd[d] = str
       THEN CHOOSE d \in 1..Len(MonthEnd) : MonthEnd[d] = str
       ELSE NA

\* read_csv taking the empty cell for 0.0
ParseFloatNoNA(str) ==
    IF str = "" THEN 0
    ELSE CHOOSE x \in 0..(Len(Digit) - 1) : FormatFloat(x) = str

\* read_csv: the empty cell is NaN, a numeral its float
ParseFloat(str) ==
    IF str = "" THEN NA
    ELSE CHOOSE x \in 0..(Len(Digit) - 1) : FormatFloat(x) = str

\* df.to_csv(path, index=False)
ToCsv(t) ==
    [header |-> <<"date">> \o t.cols,
     lines |-> [i \in 1..Len(t.rows) |->
                  <<FormatDate(t.rows[i].date)>> \o
                  [j \in 1..Len(t.cols) |-> FormatFloat(t.rows[i].v[t.cols[j]])]]]

\* pd.read_csv(csv_path), the date column parsed as line 61 does
ReadCsv(f) ==
    LET cols == Tail(f.header)
    IN  [cols |-> cols,
         rows |-> [i \in 1..Len(f.lines) |->
                     [date |-> ParseDate(f.lines[i][1]),
                      v |-> [c \in Range(cols) |->
                               ParseFloat(f.lines[i][IndexOf(f.header, c)])]]]]

\* _load_csv_fallback: [raised, table]
LoadCsvFallback(f) ==
    IF f = NoFile THEN [raised |-> TRUE, table |-> EmptyFrame]
    ELSE IF "date" \notin Range(f.header) THEN [raised |-> TRUE, table |-> EmptyFrame]
    ELSE LET df == ReadCsv(f)
             kept == [df EXCEPT !.rows = SelectSeq(df.rows, LAMBDA r : r.date # NA)]
         IN  [raised |-> FALSE, table |-> SortByDate(kept)]

----------------------------------------------------------------------------
(* data_prep.py: the online sources *)

FRED_COLS == <<"usd_ret", "dgs10_chg", "hy_oas_chg", "cmdty_ret">>

AQR_KEYS == <<"tsmom", "vme", "qmj", "bab">>

AqrCols(key) ==
    CASE key = "tsmom" -> <<"tsmom", "tsmom_eq", "tsmom_fi", "tsmom_fx", "tsmom_cm">>
      [] key = "vme" -> <<"val_everywhere", "mom_everywhere">>
      [] key = "qmj" -> <<"qmj_global">>
      [] key = "bab" -> <<"bab_global">>

Months == 1..NMonths

\* What the three FRED series and the commodity index give before the start
\* filter: a row per month; pct_change and diff leave the first row NaN; a
\* failed commodity download (lines 96-110) leaves cmdty_ret NaN throughout.
FredMerged(cmdty_ok) ==
    [cols |-> FRED_COLS,
     rows |-> [m \in Months |->
                 [date |-> m,
                  v |-> [c \in Range(FRED_COLS) |->
                           IF m = 1 THEN NA
                           ELSE IF c = "cmdty_ret" /\ ~cmdty_ok THEN NA
                           ELSE m]]]]

\* _fetch_fred_factors, when no FRED request raises
FetchFredFactors(how, s) == FilterFrom(FredMerged(how = "ok"), s)

\* What one AQR workbook parses to: a row per month.
AqrPart(key) ==
    [cols |-> AqrCols(key),
     rows |-> [m \in Months |->
                 [date |-> m,
                  v |-> [c \in Range(AqrCols(key)) |-> IndexOf(AQR_KEYS, key)]]]]

\* The loop of _fetch_aqr_factors over keys; okset: the keys whose download
\* and parse do not raise.
RECURSIVE AqrLoop(_, _, _)
AqrLoop(keys, okset, merged) ==
    IF keys = <<>> THEN merged
    ELSE IF Head(keys) \in okset
            THEN AqrLoop(Tail(keys), okset,
                         IF IsEmpty(merged) THEN AqrPart(Head(keys))
                         ELSE Merge(merged, AqrPart(Head(keys))))
            ELSE AqrLoop(Tail(keys), okset, merged)

\* _fetch_aqr_factors giving up as soon as one workbook fails
FetchAqrAllOrNone(okset, s) ==
    IF okset # Range(AQR_KEYS) THEN EmptyFrame
    ELSE SortByDate(FilterFrom(AqrLoop(AQR_KEYS, okset, EmptyFrame), s))

\* _fetch_aqr_factors
FetchAqrFactors(okset, s) ==
    LET merged == AqrLoop(AQR_KEYS, okset, EmptyFrame)
    IN  IF IsEmpty(merged) THEN EmptyFrame
        ELSE SortByDate(FilterFrom(merged, s))

\* The values of the parameter start: a month of the data, or the month
\* after the last one.
StartVals == 1..(NMonths + 1)

\* How a call of _fetch_fred_factors that does not raise can go: with the
\* commodity index, or without it.
FredHows == {"ok", "ok_nocmdty"}

\* The AQR host is down (no workbook arrives), or up with at most one
\* workbook failing to download or parse.
AqrOkSets ==
    {{}} \cup {Range(AQR_KEYS) \ bad : bad \in {{}} \cup {{k} : k \in Range(AQR_KEYS)}}

\* _fetch_fred_factors(start) and _fetch_aqr_factors(start) for every way
\* the network can go, tabulated.
FredTable == [h \in FredHows, s \in StartVals |-> FetchFredFactors(h, s)]

AqrTable == [k \in AqrOkSets, s \in StartVals |-> FetchAqrFactors(k, s)]

\* data_dir / "jkp_theme_factors_monthly.csv", when it is there
JkpCsv ==
    [header |-> <<"date", "jkp_theme">>,
     lines |-> [m \in Months |-> <<FormatDate(m), FormatFloat(m)>>]]

\* The same file in long format: each month on two lines, one per theme.
JkpCsvLong ==
    [header |-> <<"date", "jkp_theme">>,
     lines |-> [k \in 1..(2 * NMonths) |->
                  <<FormatDate((k + 1) \div 2), FormatFloat((k + 1) \div 2)>>]]

\* The file at data_dir / "jkp_theme_factors_monthly.csv"
JkpFile(src) == IF src = "long" THEN JkpCsvLong ELSE JkpCsv

\* _load_jkp_local: [raised, table]
LoadJkpLocal(src) ==
    IF src \notin {"file", "long"} THEN [raised |-> FALSE, table |-> EmptyFrame]
    ELSE IF "date" \notin Range(JkpFile(src).header)
       THEN [raised |-> TRUE, table |-> EmptyFrame]
    ELSE LET df == ReadCsv(JkpFile(src))
             kept == [df EXCEPT !.rows = SelectSeq(df.rows, LAMBDA r : r.date # NA)]
         IN  [raised |-> FALSE, table |-> SortByDate(kept)]

\* The tables a fetch can return, the cache files to_csv makes of them, and
\* what _load_csv_fallback reads back from each, tabulated.
FredResults == {FredTable[h, s] : h \in FredHows, s \in StartVals}

AqrResults == {AqrTable[k, s] : k \in AqrOkSets, s \in StartVals}

CsvTable == [t \in FredResults \cup AqrResults |-> ToCsv(t)]

CacheFiles == {CsvTable[t] : t \in FredResults \cup AqrResults}

LoadTable == [f \in CacheFiles |-> LoadCsvFallback(f)]

----------------------------------------------------------------------------
(* fetch_all_external_factors *)

\* fred_cache and fred_cache.exists(), without the exists()
CacheUsableNoExists(cd, f) == cd

\* fred_cache and fred_cache.exists()  (aqr_cache likewise)
CacheUsable(cd, f) == cd /\ f # NoFile

\* The try / except with the cache write outside the try: a write that
\* raises leaves the fetched table in place.
SourceSectionKeepsFetched(name, fetched, wok, f, cd) ==
    IF fetched # NoData
       THEN [raised |-> FALSE, table |-> fetched,
             file |-> IF cd /\ wok THEN CsvTable[fetched] ELSE f, warn |-> <<>>]
    ELSE IF CacheUsable(cd, f)
       THEN [raised |-> FALSE, table |-> LoadCsvFallback(f).table, file |-> f,
             warn |-> <<name \o " online failed; loaded local cache.">>]
    ELSE [raised |-> FALSE, table |-> EmptyFrame, file |-> f,
          warn |-> <<name \o " online failed; no cache available.">>]

\* One source's try / except (lines 295-305, 309-321).  fetched: the table
\* the fetch returned, or NoData when it raised; wok: to_csv does not raise.
\* Gives [raised, table, file, warn].
SourceSection(name, fetched, wok, f, cd) ==
    IF fetched # NoData /\ (~cd \/ wok)
       THEN [raised |-> FALSE, table |-> fetched,
             file |-> IF cd THEN CsvTable[fetched] ELSE f, warn |-> <<>>]
    ELSE IF CacheUsable(cd, f)
       THEN LET ld == IF f \in CacheFiles THEN LoadTable[f] ELSE LoadCsvFallback(f)
            IN  [raised |-> ld.raised, table |-> ld.table, file |-> f,
                 warn |-> <<name \o " online failed; loaded local cache.">>]
    ELSE [raised |-> FALSE, table |-> EmptyFrame, file |-> f,
          warn |-> <<name \o " online failed; no cache available.">>]

\* fred = _fetch_fred_factors(start=start), NoData when it raises
FredFetched(n, s) ==
    IF n.fred = "fail" THEN NoData ELSE FredTable[n.fred, s]

\* aqr = _fetch_aqr_factors(start=start); if aqr.empty: raise RuntimeError
AqrFetched(n, s) ==
    LET t == AqrTable[n.aqr, s]
    IN  IF IsEmpty(t) THEN NoData ELSE t

\* Lines 323-329.
JkpSection(src) ==
    IF src = "nodir" THEN [table |-> EmptyFrame, warn |-> <<>>]
    ELSE LET ld == LoadJkpLocal(src)
         IN  IF ld.raised
                THEN [table |-> EmptyFrame, warn |-> <<"JKP local load failed">>]
                ELSE [table |-> ld.table, warn |-> <<>>]

\* Lines 333-338, for one part.
MergePart(o, part) ==
    IF IsEmpty(part) THEN o
    ELSE IF IsEmpty(o) THEN part
    ELSE Merge(o, part)

\* Lines 331-341.
MergeStep(fr, aq, jk, s) ==
    LET o0 == IF ~IsEmpty(fr) THEN fr ELSE EmptyFrame
        o2 == MergePart(MergePart(o0, aq), jk)
    IN  IF ~IsEmpty(o2) THEN SortByDate(FilterFrom(o2, s)) ELSE o2

\* The tables a section can hand to the merge (fetched, read back from the
\* cache, or empty), and the merge of each combination, tabulated.
SectionTables(results) ==
    results \cup {LoadTable[CsvTable[t]].table : t \in results} \cup {EmptyFrame}

JkpSources == {"nodir", "nofile", "file", "long"}

JkpLoaded == [js \in JkpSources |-> JkpSection(js)]

JkpTables == {JkpLoaded[js].table : js \in JkpSources}

MergeTable ==
    [fr \in SectionTables(FredResults), aq \in SectionTables(AqrResults),
     jk \in JkpTables, s \in StartVals |-> MergeStep(fr, aq, jk, s)]

\* The body of the call, from what the two fetches gave (a table, or NoData
\* for one that raised).  wf, wa: the cache write does not raise; ff, af: the
\* cache files before the call.
FetchAllOf(ffetched, afetched, wf, wa, ff, af, cd, s, js) ==
    LET F == SourceSection("FRED", ffetched, wf, ff, cd)
        A == SourceSection("AQR", afetched, wa, af, cd)
        J == JkpLoaded[js]
    IN  IF F.raised
           THEN [raised |-> TRUE, fred |-> EmptyFrame, aqr |-> EmptyFrame,
                 out |-> EmptyFrame, warnings |-> <<>>,
                 fred_file |-> F.file, aqr_file |-> af]
        ELSE IF A.raised
           THEN [raised |-> TRUE, fred |-> F.table, aqr |-> EmptyFrame,
                 out |-> EmptyFrame, warnings |-> F.warn,
                 fred_file |-> F.file, aqr_file |-> A.file]
        ELSE [raised |-> FALSE, fred |-> F.table, aqr |-> A.table,
              out |-> MergeTable[F.table, A.table, J.table, s],
              warnings |-> F.warn \o A.warn \o J.warn,
              fred_file |-> F.file, aqr_file |-> A.file]

\* The whole call.  n: what the network and the disk do.
FetchAll(n, ff, af, cd, s, js) ==
    FetchAllOf(FredFetched(n, s), AqrFetched(n, s), n.wfred, n.waqr, ff, af, cd, s, js)

\* What can happen in one call.  wfred, waqr: the cache write does not raise
\* (kept TRUE where no write is attempted).
NetOutcomes(cd, s) ==
    {n \in [fred : {"fail"} \cup FredHows, aqr : AqrOkSets,
            wfred : BOOLEAN, waqr : BOOLEAN] :
        /\ (~cd \/ FredFetched(n, s) = NoData) => n.wfred
        /\ (~cd \/ AqrFetched(n, s) = NoData) => n.waqr}

FetchInit ==
    /\ start \in StartVals
    /\ cache_dir \in BOOLEAN
    /\ jkp_src \in JkpSources
    /\ fred_file = NoFile
    /\ aqr_file = NoFile
    /\ net = NoCall
    /\ fred = EmptyFrame
    /\ aqr = EmptyFrame
    /\ out = EmptyFrame
    /\ warnings = <<>>
    /\ fstatus = "idle"
    /\ last_ok = [fred |-> NoData, aqr |-> NoData]
    /\ PickIdle
    /\ ScriptsIdle

\* One call of fetch_all_external_factors(start, cache_dir, data_dir).
FetchCall ==
    \E n \in NetOutcomes(cache_dir, start) :
      \E r \in {FetchAll(n, fred_file, aqr_file, cache_dir, start, jkp_src)} :
        LET ffetched == FredFetched(n, start)
            afetched == AqrFetched(n, start)
        IN  /\ net' = n
            /\ fred' = r.fred
            /\ aqr' = r.aqr
            /\ out' = r.out
            /\ warnings' = r.warnings
            /\ fstatus' = IF r.raised THEN "raised" ELSE "returned"
            /\ fred_file' = r.fred_file
            /\ aqr_file' = r.aqr_file
            /\ last_ok' = [fred |-> IF ffetched # NoData THEN ffetched ELSE last_ok.fred,
                           aqr |-> IF afetched # NoData THEN afetched ELSE last_ok.aqr]
            /\ UNCHANGED <<start, cache_dir, jkp_src>>
            /\ UNCHANGED <<pickVars, scriptVars>>

FetchNext == FetchCall

----------------------------------------------------------------------------
(* Question 1: the tables the input files hold                             *)
(*                                                                         *)
(* A table is [years, col]: the years of its rows, and for each column the *)
(* value of each year, a return in percent or NA.  The statistics are kept *)
(* exact, as the sums they are made of; AnnualizedReturn applies round(4). *)

AllYears == 1..NYears

MaxOf(S) == CHOOSE x \in S : \A y \in S : y <= x

MinOf(S) == CHOOSE x \in S : \A y \in S : x <= y

\* risk_free_rate_annual = 0.02, in percent
RF_PCT == 2

\* A series with a value in every year: 0 percent up to a year, RF_PCT
\* percent from then on (the constant series are among them).
Steps(ys) ==
    {[y \in ys |-> IF y < a THEN 0 ELSE RF_PCT] : a \in ys \cup {NYears + 1}}

\* A series that may start late: NaN in its first years.
LateSteps(ys) ==
    {[y \in ys |-> IF y < k THEN NA ELSE s[y]] : k \in ys \cup {NYears + 1}, s \in Steps(ys)}

\* Three of the columns named at lines 35, 47 and 76.
DAMODARAN_COLS == <<"SP500", "TBill", "Gold">>

\* hk_ columns of mpf_category_annual_returns.csv, with hk_ taken off
MPF_COLS == <<"GlobalEquityLargeCap", "GreaterChinaEquity", "MixedAllocation">>

\* The tables a file can hold: rows for the years from some year on; the
\* last column may start late.
TablesOf(cols) ==
    UNION {{[years |-> ys,
             col |-> [c \in Range(cols) |->
                        IF c = cols[1] THEN a ELSE IF c = cols[2] THEN b ELSE g]] :
               a \in Steps(ys), b \in Steps(ys), g \in LateSteps(ys)} :
           ys \in {y0..NYears : y0 \in AllYears}}

\* What there is to read where no file is
NoTable == [years |-> {}, col |-> <<>>]

----------------------------------------------------------------------------
(* Question 1: stats_table and summary_stats *)

\* float("nan"), and +-inf
FNaN == [nan |-> TRUE]

FInf == [inf |-> TRUE]

\* The call raised
Raised == [raised |-> TRUE]

RECURSIVE SumOver(_, _)
SumOver(f, S) ==
    IF S = {} THEN 0
    ELSE LET y == CHOOSE z \in S : TRUE IN f[y] + SumOver(f, S \ {y})

\* (1 + s).prod(), as the returns that are multiplied: how many times each
\* value occurs among the rows S
ProdOver(f, S) ==
    [v \in {f[y] : y \in S} |-> Cardinality({y \in S : f[y] = v})]

\* Series.std() over the rows S (ddof = 1): NaN below two values, else
\* sqrt(ss / (n * (n - 1))) with ss = n * sum(x^2) - sum(x)^2.
Std(f, S) ==
    LET n == Cardinality(S)
        sum == SumOver(f, S)
        sumsq == SumOver([y \in S |-> f[y] * f[y]], S)
    IN  IF n < 2 THEN FNaN ELSE [ss |-> n * sumsq - sum * sum, n |-> n]

IsZero(v) == "ss" \in DOMAIN v /\ v.ss = 0

\* vol with the zeros left in
KeepZero(v) == v

\* vol.replace(0, np.nan)
ReplaceZero(v) == IF IsZero(v) THEN FNaN ELSE v

\* excess / vol on floats.  An excess e carries the sum of its series and
\* the sum it is compared with: over a series of zero volatility the excess
\* is zero exactly when the two are equal.  x / 0 is +-inf, 0 / 0 is NaN.
Divide(e, v) ==
    IF e = FNaN \/ v = FNaN THEN FNaN
    ELSE IF IsZero(v) THEN (IF e.sum = e.rfsum THEN FNaN ELSE FInf)
    ELSE [num |-> e, den |-> v]

\* df_ = df[cols] without the dropna()
AllRows(t, R) == R

\* df_ = df[cols].dropna(): the rows of R it keeps
CompleteRows(t, R) ==
    {y \in R : \A c \in Range(DAMODARAN_COLS) \cap DOMAIN t.col : t.col[c][y] # NA}

\* geo_ret - df_[rf_col].mean() for column c
GeoExcess(t, c, keep) ==
    [prod |-> ProdOver(t.col[c], keep), n |-> Cardinality(keep),
     sum |-> SumOver(t.col[c], keep), rfsum |-> SumOver(t.col["TBill"], keep)]

\* stats_table(df) on the rows R of the table t.  With no complete row the
\* call raises (n = 0 at line 50).
stats_table(t, R) ==
    LET cols == Range(DAMODARAN_COLS) \cap DOMAIN t.col
        keep == CompleteRows(t, R)
        n == Cardinality(keep)
    IN  IF n = 0 THEN Raised
        ELSE [c \in cols |->
                LET vol == Std(t.col[c], keep)
                    excess == GeoExcess(t, c, keep)
                IN  [Annualized_Return |-> [prod |-> excess.prod, n |-> n],
                     Volatility |-> vol,
                     Sharpe_Ratio |-> Divide(excess, ReplaceZero(vol))]]

\* Natural numbers beyond the machine integers: digits to the base 1000,
\* least significant first, <<>> for zero.  BigTimes: a * m + carry.
RECURSIVE BigTimes(_, _, _)
BigTimes(a, m, carry) ==
    IF m = 0 THEN <<>>
    ELSE IF a = <<>>
       THEN (IF carry = 0 THEN <<>>
             ELSE <<carry % 1000>> \o BigTimes(<<>>, m, carry \div 1000))
    ELSE LET x == Head(a) * m + carry
         IN  <<x % 1000>> \o BigTimes(Tail(a), m, x \div 1000)

\* a * m ** k
RECURSIVE BigTimesPower(_, _, _)
BigTimesPower(a, m, k) ==
    IF k = 0 THEN a ELSE BigTimesPower(BigTimes(a, m, 0), m, k - 1)

\* a < b
RECURSIVE BigLess(_, _)
BigLess(a, b) ==
    IF Len(a) # Len(b) THEN Len(a) < Len(b)
    ELSE IF a = <<>> THEN FALSE
    ELSE LET k == Len(a)
         IN  IF a[k] # b[k] THEN a[k] < b[k]
             ELSE BigLess(SubSeq(a, 1, k - 1), SubSeq(b, 1, k - 1))

\* (1 + s).prod() as a number: the product of (100 + v) * m over the
\* returns v in percent that are multiplied
RECURSIVE BigProd(_, _)
BigProd(prod, m) ==
    IF DOMAIN prod = {} THEN <<1>>
    ELSE LET v == CHOOSE z \in DOMAIN prod : TRUE
         IN  BigTimesPower(BigProd([z \in DOMAIN prod \ {v} |-> prod[z]], m),
                           (100 + v) * m, prod[v])

\* The largest k in lo..hi with (20000 + 2 * k - 1) ** n <= T
RECURSIVE NearestBelow(_, _, _, _)
NearestBelow(lo, hi, T, n) ==
    IF lo >= hi THEN lo
    ELSE LET mid == (lo + hi + 1) \div 2
         IN  IF BigLess(T, BigTimesPower(<<1>>, 20000 + 2 * mid - 1, n))
                THEN NearestBelow(lo, mid - 1, T, n)
                ELSE NearestBelow(mid, hi, T, n)

\* The mean of the returns, in units of 0.0001, rounded down
ArithmeticReturn(g) ==
    LET sum == SumOver([v \in DOMAIN g.prod |-> v * g.prod[v]], DOMAIN g.prod)
    IN  (100 * sum) \div g.n

\* geo_ret = (1 + s).prod() ** (1 / n) - 1 after .round(4), in units of
\* 0.0001: the k with 1 + k / 10000 nearest to the n-th root of the product
\* (it lies between the smallest and the largest of the returns).  For
\* returns above -100 percent.
AnnualizedReturn(g) ==
    NearestBelow(100 * MinOf(DOMAIN g.prod), 100 * MaxOf(DOMAIN g.prod),
                 BigProd(g.prod, 200), g.n)

\* The values of column c in the rows R that mean() and std() use
OwnRows(t, c, R) == {y \in R : t.col[c][y] # NA}

\* mean_ret - risk_free_rate_annual for column c
MeanExcess(t, c, R) ==
    LET own == OwnRows(t, c, R)
    IN  IF own = {} THEN FNaN
        ELSE [sum |-> SumOver(t.col[c], own), n |-> Cardinality(own),
              rfsum |-> RF_PCT * Cardinality(own)]

\* summary_stats(df[cols]) on the rows R of the table t
summary_stats(t, R, cols) ==
    [c \in cols |->
       LET own == OwnRows(t, c, R)
           vol == Std(t.col[c], own)
           excess == MeanExcess(t, c, R)
       IN  [Mean_Return |-> IF own = {} THEN FNaN
                            ELSE [sum |-> excess.sum, n |-> excess.n],
            Volatility |-> vol,
            Excess_Return |-> excess,
            Sharpe_Ratio |-> Divide(excess, ReplaceZero(vol))]]

----------------------------------------------------------------------------
(* Question 1: the entry points *)

Q1Scripts == {"Q1_1", "Q1_2", "Q1_6", "Q1_7"}

\* XLS_PATH and DATA_PATH: the name of the input file, and the folders it is
\* looked for in (ROOT / "data", then ROOT.parent).
InputName(s) ==
    IF s = "Q1_1" THEN "histretSP.xls" ELSE "mpf_category_annual_returns.csv"

Q1Folders == <<"data", "root">>

\* The input file is taken to be there whatever the folders hold
NotFoundNever(fs, name, folders) == FALSE

\* not XLS_PATH.exists(), not DATA_PATH.exists(): the file is in neither
\* folder; the read of a path that does not exist.
NotFound(fs, name, folders) == \A d \in Range(folders) : <<d, name>> \notin fs

Q1Init ==
    /\ script \in Q1Scripts
    /\ files \in SUBSET {<<d, InputName(script)>> : d \in Range(Q1Folders)}
    /\ spc = "start"
    /\ written = {}
    /\ data \in IF files = {} THEN {NoTable}
                ELSE IF script = "Q1_1" THEN TablesOf(DAMODARAN_COLS)
                ELSE TablesOf(MPF_COLS)
    /\ stats = <<>>
    /\ econ_factors = <<>>
    /\ greedy_factors = <<>>
    /\ live = "none"
    /\ PickIdle
    /\ FetchIdle

\* Q1_1 main, line 62: df = load_damodaran()
Q11Load ==
    /\ script = "Q1_1"
    /\ spc = "start"
    /\ spc' = IF NotFound(files, InputName(script), Q1Folders) THEN "error" ELSE "loaded"
    /\ UNCHANGED <<script, files, written, data, stats, econ_factors, greedy_factors, live>>
    /\ UNCHANGED <<pickVars, fetchVars>>

\* Q1_1 main, lines 63-64
Q11Save ==
    /\ script = "Q1_1"
    /\ spc = "loaded"
    /\ written' = written \cup {"damodaran_histret_loaded.csv"}
    /\ spc' = "saved"
    /\ UNCHANGED <<script, files, data, stats, econ_factors, greedy_factors, live>>
    /\ UNCHANGED <<pickVars, fetchVars>>

\* Q1_1 main, lines 66-74: the rows of full, df_30 and df_prior.  The 30
\* years and the 5 rows of the source are LastSpan and MinPriorLen here.
Subsamples(t) ==
    LET full == {y \in t.years : t.col["SP500"][y] # NA}
        last_year == MaxOf(full)
        first_year == MinOf(full)
        df_30 == {y \in t.years : y >= last_year - LastSpan}
        df_prior == {y \in t.years : y >= first_year /\ y < last_year - LastSpan}
        mid == first_year + (last_year - first_year) \div 2
    IN  IF Cardinality(df_prior) < MinPriorLen
           THEN [full |-> full, df_30 |-> {y \in t.years : y >= mid},
                 df_prior |-> {y \in t.years : y < mid}]
           ELSE [full |-> full, df_30 |-> df_30, df_prior |-> df_prior]

\* The calls made one after the other, up to the first that raises
UpToRaise(results) ==
    LET bad == {i \in 1..Len(results) : results[i] = Raised}
    IN  IF bad = {} THEN results ELSE SubSeq(results, 1, MinOf(bad))

\* Q1_1 main, lines 66-87.  int() of the maximum of no year raises.
Q11Stats ==
    /\ script = "Q1_1"
    /\ spc = "saved"
    /\ IF data.years = {}
          THEN /\ spc' = "error"
               /\ UNCHANGED <<stats, written>>
          ELSE LET sub == Subsamples(data)
                   res == UpToRaise(<<stats_table(data, sub.full),
                                      stats_table(data, sub.df_30),
                                      stats_table(data, sub.df_prior)>>)
               IN  /\ stats' = res
                   /\ IF Raised \in Range(res)
                         THEN /\ spc' = "error"
                              /\ UNCHANGED written
                         ELSE /\ spc' = "done"
                              /\ written' = written \cup
                                    {"damodaran_stats_full.csv", "damodaran_stats_last30.csv",
                                     "damodaran_stats_prior.csv", "damodaran_corr_full.csv",
                                     "damodaran_corr_last30.csv"}
    /\ UNCHANGED <<script, files, data, econ_factors, greedy_factors, live>>
    /\ UNCHANGED <<pickVars, fetchVars>>

\* Q1_2 main lines 47-49, Q1_6 main lines 21-22, Q1_7 main lines 82-85
MpfCheck ==
    /\ script \in {"Q1_2", "Q1_6", "Q1_7"}
    /\ spc = "start"
    /\ spc' = IF NotFound(files, InputName(script), Q1Folders) THEN "error" ELSE "checked"
    /\ UNCHANGED <<script, files, written, data, stats, econ_factors, greedy_factors, live>>
    /\ UNCHANGED <<pickVars, fetchVars>>

\* "Allocation" in c
IsAllocation(c) == c = "MixedAllocation"

\* Q1_2 main, lines 50-70.  df.loc[2010:] if 2010 in df.index else df
Q12Main ==
    /\ script = "Q1_2"
    /\ spc = "checked"
    /\ LET df_full == data.years
           df_recent == IF START_YEAR \in data.years
                           THEN {y \in data.years : y >= START_YEAR}
                           ELSE data.years
           columns == DOMAIN data.col
           allocation == {c \in columns : IsAllocation(c)}
       IN  stats' = <<summary_stats(data, df_full, columns),
                      summary_stats(data, df_recent, columns),
                      summary_stats(data, df_full, allocation),
                      summary_stats(data, df_recent, allocation)>>
    /\ written' = written \cup
          {"summary_stats_full_sample.csv", "summary_stats_2010_2024.csv",
           "summary_stats_allocation_funds_full.csv",
           "summary_stats_allocation_funds_2010_2024.csv",
           "correlation_allocation_funds.csv"}
    /\ spc' = "done"
    /\ UNCHANGED <<script, files, data, econ_factors, greedy_factors, live>>
    /\ UNCHANGED <<pickVars, fetchVars>>

\* (1 + r).cumprod() over the rows kept, and the annualised return of its
\* last value over n = len(years) periods
CumGrowth(t, c, kept) ==
    [cum |-> [y \in kept |-> ProdOver(t.col[c], {z \in kept : z <= y})],
     ann |-> [prod |-> ProdOver(t.col[c], kept), n |-> Cardinality(kept)]]

\* Q1_6 main, lines 23-43.  cum_global[-1] of no row raises.
Q16Main ==
    /\ script = "Q1_6"
    /\ spc = "checked"
    /\ \E kept \in {{y \in data.years : y >= START_YEAR}} :
         IF kept = {}
            THEN /\ spc' = "error"
                 /\ UNCHANGED <<stats, written>>
            ELSE /\ spc' = "done"
                 /\ stats' = <<[years |-> kept, n |-> Cardinality(kept),
                                global |-> CumGrowth(data, "GlobalEquityLargeCap", kept),
                                hk |-> CumGrowth(data, "GreaterChinaEquity", kept)]>>
                 /\ written' = written \cup {"q16_cumulative_global_vs_hk.csv"}
    /\ UNCHANGED <<script, files, data, econ_factors, greedy_factors, live>>
    /\ UNCHANGED <<pickVars, fetchVars>>

\* The years in which vt.history has prices: from the first year of the
\* history to END_YEAR, or none
VtHistories == {y0..END_YEAR : y0 \in START_YEAR..(END_YEAR + 1)}

\* Q1_7 main, line 88: fetch_vt_annual_returns() on the year-end prices of
\* the years p.  rets = p[1:] / p[:-1] - 1 has a return for each year but
\* the first; fewer than two prices raise.
Q17Fetch ==
    /\ script = "Q1_7"
    /\ spc = "checked"
    /\ \E p \in VtHistories :
         IF Cardinality(p) < 2
            THEN /\ spc' = "error"
                 /\ UNCHANGED stats
            ELSE /\ spc' = "fetched"
                 /\ stats' = <<[years |-> p \ {MinOf(p)}, n_years |-> Cardinality(p) - 1]>>
    /\ UNCHANGED <<script, files, written, data, econ_factors, greedy_factors, live>>
    /\ UNCHANGED <<pickVars, fetchVars>>

\* Q1_7 main, lines 95-135, on the rows load_mpf_hk keeps
Q17Main ==
    /\ script = "Q1_7"
    /\ spc = "fetched"
    /\ \E kept \in {{y \in data.years : y >= START_YEAR /\ y <= END_YEAR}} :
         IF kept = {}
            THEN /\ spc' = "error"
                 /\ UNCHANGED <<stats, written>>
            ELSE /\ spc' = "done"
                 /\ stats' = Append(stats,
                                    [years_mpf |-> kept, n_mpf |-> Cardinality(kept),
                                     global |-> CumGrowth(data, "GlobalEquityLargeCap", kept),
                                     hk |-> CumGrowth(data, "GreaterChinaEquity", kept)])
                 /\ written' = written \cup {"q17_etf_vs_mpf.csv"}
    /\ UNCHANGED <<script, files, data, econ_factors, greedy_factors, live>>
    /\ UNCHANGED <<pickVars, fetchVars>>

----------------------------------------------------------------------------
(* run_analysis.py: main *)

FUND_XLSX == "CS Global Macro Index at 2x Vol Net of 95bps 2025.09.xlsx"

FF5_PARQUET == "ff.five_factor.parquet"

\* _resolve_input_file: DATA_DIR, then CODE_DIR
Q3Folders == <<"data", "code">>

ECON_PRIORITY ==
    <<"mkt_rf", "tsmom", "val_everywhere", "hy_oas_chg", "usd_ret",
      "dgs10_chg", "mom_everywhere", "cmdty_ret">>

\* The columns of core: a row per month, no value missing.
CORE_COLS == {"fund_ret", "mkt_rf", "smb", "hml", "rmw", "cma", "rf", "fund_excess"}

\* The 60 observations of lines 64 and 120, for a sample of NMonths months
MainMinObs == NMonths - 2

\* macro = core.merge(ext, on="date", how="left"): per column, the months
\* with a value.
MacroDf(ext) ==
    [c \in CORE_COLS \cup Range(ext.cols) |->
       IF c \in CORE_COLS THEN Months
       ELSE {m \in Months : \E i \in 1..Len(ext.rows) :
                               ext.rows[i].date = m /\ ext.rows[i].v[c] # NA}]

Largest(a, b) == IF a >= b THEN a ELSE b

\* seq[:n]
Take(seq, n) == SubSeq(seq, 1, IF n <= Len(seq) THEN n ELSE Len(seq))

\* Lines 119-121
EconFactors(macro) ==
    LET econ_avail == SelectSeq(ECON_PRIORITY, LAMBDA c : IsAvailable(macro, c, MainMinObs))
    IN  IF Len(econ_avail) >= 5 THEN Take(econ_avail, 5)
        ELSE Take(econ_avail, Largest(3, Len(econ_avail)))

\* sm.OLS(...).fit() raises on a sample of no row
FitRaises(rows) == rows = {}

\* What the fits of one round of _pick_best_model give in main: NaN
\* throughout, or the top score for the first or the last candidate that is
\* tried and a lower one for the others.
RoundFits(macro, mo, avail, ch, which, nan) ==
    LET tried == SelectSeq(avail, LAMBDA c :
                     c \notin Range(ch) /\ ~TooFewRows(macro, Range(ch) \cup {c}, mo))
        top == IF tried = <<>> THEN None
               ELSE IF which = "first" THEN tried[1] ELSE tried[Len(tried)]
    IN  [t \in {Range(ch) \cup {c} : c \in Range(tried)} |->
           IF nan THEN NaN ELSE IF t = Range(ch) \cup {top} THEN MaxScore ELSE 0]

\* The outer loop of _pick_best_model from round k on; the fits are NaN
\* after round stop.
RECURSIVE GreedyLoop(_, _, _, _, _, _, _, _)
GreedyLoop(macro, mo, avail, mx, which, stop, ch, k) ==
    IF k > mx THEN ch
    ELSE LET fits == RoundFits(macro, mo, avail, ch, which, k > stop)
             best == BestScan(macro, mo, fits, avail, ch, 1, NegInf, None)
         IN  IF best.col = None THEN ch
             ELSE GreedyLoop(macro, mo, avail, mx, which, stop, Append(ch, best.col), k + 1)

\* _pick_best_model(y, candidate_df, all_candidates, min_obs, min_factors,
\* max_factors) as one call
pick_best_model(macro, cands, mo, mf, mx, which, stop) ==
    LET avail == AvailableOf(cands, macro, mo)
    IN  MinSizeFallback(avail, GreedyLoop(macro, mo, avail, mx, which, stop, <<>>, 1), mf)

\* The cache files a run can find in OUTPUT_DIR: none, or what an earlier
\* run with the same start wrote.
OldFredFiles == {NoFile} \cup {CsvTable[FredTable[h, 1]] : h \in FredHows}

OldAqrFiles == {NoFile, CsvTable[AqrTable[Range(AQR_KEYS), 1]]}

\* Each input file is in DATA_DIR, in CODE_DIR, or in neither.
Q3Files ==
    {a \cup b : a \in {{}, {<<"data", FUND_XLSX>>}, {<<"code", FUND_XLSX>>}},
                b \in {{}, {<<"data", FF5_PARQUET>>}, {<<"code", FF5_PARQUET>>}}}

Q3Init ==
    /\ script = "run_analysis"
    /\ files \in Q3Files
    /\ spc = "start"
    /\ written = {}
    /\ data = <<>>
    /\ stats = <<>>
    /\ econ_factors = <<>>
    /\ greedy_factors = <<>>
    /\ live = "none"
    /\ start = 1
    /\ cache_dir = TRUE
    /\ jkp_src \in {"nofile", "file"}
    /\ fred_file \in OldFredFiles
    /\ aqr_file \in OldAqrFiles
    /\ net = NoCall
    /\ fred = EmptyFrame
    /\ aqr = EmptyFrame
    /\ out = EmptyFrame
    /\ warnings = <<>>
    /\ fstatus = "idle"
    /\ last_ok = [fred |-> NoData, aqr |-> NoData]
    /\ PickIdle

\* Lines 91-106: the two loads, core, and the FF5 regression on it
MainLoad ==
    /\ script = "run_analysis"
    /\ spc = "start"
    /\ spc' = IF \/ NotFound(files, FUND_XLSX, Q3Folders)
                 \/ NotFound(files, FF5_PARQUET, Q3Folders)
                 \/ FitRaises(Months)
                 THEN "error" ELSE "loaded"
    /\ UNCHANGED <<script, files, written, data, stats, econ_factors, greedy_factors, live>>
    /\ UNCHANGED <<pickVars, fetchVars>>

\* Lines 109-114: ext = fetch_all_external_factors(start, OUTPUT_DIR,
\* DATA_DIR), and ext.to_csv
MainFetch ==
    /\ script = "run_analysis"
    /\ spc = "loaded"
    /\ \E n \in NetOutcomes(cache_dir, start) :
         \E r \in {FetchAll(n, fred_file, aqr_file, cache_dir, start, jkp_src)} :
           LET ffetched == FredFetched(n, start)
               afetched == AqrFetched(n, start)
           IN  /\ net' = n
               /\ fred' = r.fred
               /\ aqr' = r.aqr
               /\ out' = r.out
               /\ warnings' = r.warnings
               /\ fstatus' = IF r.raised THEN "raised" ELSE "returned"
               /\ fred_file' = r.fred_file
               /\ aqr_file' = r.aqr_file
               /\ last_ok' = [fred |-> IF ffetched # NoData THEN ffetched ELSE last_ok.fred,
                              aqr |-> IF afetched # NoData THEN afetched ELSE last_ok.aqr]
               /\ spc' = IF r.raised THEN "error" ELSE "fetched"
               /\ written' = written
                     \cup (IF ffetched # NoData /\ n.wfred
                              THEN {"fred_factors_monthly.csv"} ELSE {})
                     \cup (IF /\ afetched # NoData /\ n.waqr
                              /\ ~SourceSection("FRED", ffetched, n.wfred,
                                                   fred_file, cache_dir).raised
                              THEN {"aqr_factors_monthly.csv"} ELSE {})
                     \cup (IF r.raised THEN {} ELSE {"external_factors_monthly.csv"})
    /\ UNCHANGED <<start, cache_dir, jkp_src>>
    /\ UNCHANGED <<script, files, data, stats, econ_factors, greedy_factors, live>>
    /\ UNCHANGED pickVars

\* The greedy searches main can see: which candidate fits best in a round,
\* and the round after which no fit has a score.
GreedyWays == [which : {"first", "last"}, stop : 0..5]

\* Lines 117-147: macro, the economist's model, the greedy model, and the
\* FF5 fit on the dates of the two.
MainModels ==
    /\ script = "run_analysis"
    /\ spc = "fetched"
    /\ \E macro \in {MacroDf(out)} :
         \E econ \in {EconFactors(macro)} :
           \E w \in GreedyWays :
             \E greedy \in {pick_best_model(macro, ALL_CANDIDATES, MainMinObs, 3, 5,
                                            w.which, w.stop)} :
               LET econ_df == DropnaRows(macro, Range(econ))
                   greedy_df == DropnaRows(macro, Range(greedy))
                   ff5_same == Months \cap (econ_df \cup greedy_df)
               IN  IF FitRaises(econ_df)
                      THEN /\ econ_factors' = econ
                           /\ spc' = "error"
                           /\ UNCHANGED greedy_factors
                   ELSE /\ econ_factors' = econ
                        /\ greedy_factors' = greedy
                        /\ spc' = IF FitRaises(greedy_df) \/ FitRaises(ff5_same)
                                     THEN "error" ELSE "modelled"
    /\ UNCHANGED <<script, files, written, data, stats, live>>
    /\ UNCHANGED <<pickVars, fetchVars>>

\* How the HFGM block can go: something in it raises; the download is
\* empty; fewer than 4 months overlap with core; 4 or more do.
HfgmOutcomes == {"raise", "empty", "short", "long"}

\* The HFGM block without its except clause
HfgmUnguarded(h) == h = "raise"

\* Lines 161-185: whatever the block raises is caught
HfgmPropagates(h) == FALSE

\* Lines 158-185
MainHfgm ==
    /\ script = "run_analysis"
    /\ spc = "modelled"
    /\ \E h \in HfgmOutcomes :
         /\ live' = h
         /\ spc' = IF HfgmPropagates(h) THEN "error" ELSE "hfgm"
         /\ written' = IF h = "raise" THEN written
                       ELSE written \cup {"hfgm_monthly_returns.csv"}
    /\ UNCHANGED <<script, files, data, stats, econ_factors, greedy_factors>>
    /\ UNCHANGED <<pickVars, fetchVars>>

\* Lines 188-193
MainSave ==
    /\ script = "run_analysis"
    /\ spc = "hfgm"
    /\ written' = written
          \cup {"ff5_coefficients.csv", "econ_model_coefficients.csv",
                "greedy_model_coefficients.csv", "model_comparison.csv"}
          \cup (IF live = "long" THEN {"live_vs_backtest_stats.csv"} ELSE {})
    /\ spc' = "saved"
    /\ UNCHANGED <<script, files, data, stats, econ_factors, greedy_factors, live>>
    /\ UNCHANGED <<pickVars, fetchVars>>

\* Lines 196-217: build_report and OUTPUT_MD.write_text
MainReport ==
    /\ script = "run_analysis"
    /\ spc = "saved"
    /\ written' = written \cup {"analysis_global_macro.md"}
    /\ spc' = "done"
    /\ UNCHANGED <<script, files, data, stats, econ_factors, greedy_factors, live>>
    /\ UNCHANGED <<pickVars, fetchVars>>

----------------------------------------------------------------------------
(* One run of one script *)

ScriptsInit == Q1Init \/ Q3Init

ScriptsNext ==
    \/ Q11Load \/ Q11Save \/ Q11Stats
    \/ MpfCheck \/ Q12Main \/ Q16Main \/ Q17Fetch \/ Q17Main
    \/ MainLoad \/ MainFetch \/ MainModels \/ MainHfgm \/ MainSave \/ MainReport

\* stats_table on a frame of one asset and the risk-free column: the
\* returns of the asset, in percent
SampleReturns == {-5, 0, 8, 10}

\* The longest sample
MaxSample == 3

SampleTables ==
    UNION {{[years |-> 1..n,
             col |-> [c \in {"SP500", "TBill"} |->
                        IF c = "SP500" THEN s ELSE [y \in 1..n |-> RF_PCT]]] :
               s \in [1..n -> SampleReturns]} : n \in 1..MaxSample}

StatsInit ==
    /\ script = "stats_table"
    /\ files = {}
    /\ spc = "start"
    /\ written = {}
    /\ data \in SampleTables
    /\ stats = <<>>
    /\ econ_factors = <<>>
    /\ greedy_factors = <<>>
    /\ live = "none"
    /\ PickIdle
    /\ FetchIdle

\* stats_table(df) on the whole frame
StatsCall ==
    /\ script = "stats_table"
    /\ spc = "start"
    /\ stats' = <<stats_table(data, data.years)>>
    /\ spc' = "done"
    /\ UNCHANGED <<script, files, written, data, econ_factors, greedy_factors, live>>
    /\ UNCHANGED <<pickVars, fetchVars>>

StatsNext == StatsCall

----------------------------------------------------------------------------
(* Specifications *)

SpecPick == PickInit /\ [][PickNext]_vars

SpecFetch == FetchInit /\ [][FetchNext]_vars

SpecScripts == ScriptsInit /\ [][ScriptsNext]_vars

SpecStats == StatsInit /\ [][StatsNext]_vars

----------------------------------------------------------------------------
(* Claims about _pick_best_model *)

\* While pc is "greedy" or "pad", chosen is the list built by the rounds so
\* far: its i-th entry was appended by the round that started with the
\* first i - 1 entries.
InRounds == pc \in {"greedy", "pad"}

Before(i) == SubSeq(chosen, 1, i - 1)

\* Not-yet-chosen eligible candidates of the round that appended chosen[i].
Eligible(i) == Range(Available(candidate_df, min_obs)) \ Range(Before(i))

TrialOf(i, d) == Range(Before(i)) \cup {d}

\* Those of them whose trial set keeps at least min_obs complete rows.
Fitted(i) ==
    {d \in Eligible(i) : Cardinality(DropnaRows(candidate_df, TrialOf(i, d))) >= min_obs}

\* C1, as claimed: in every round the appended factor attains the largest
\* trial adjusted R-squared among all not-yet-chosen eligible candidates; no
\* eligible candidate with a strictly larger one is passed over.
C1_BestAmongEligible ==
    InRounds =>
        \A i \in 1..Len(chosen) :
            \A d \in Eligible(i) :
                TrialOf(i, d) \in DOMAIN adjr2 =>
                    ~FloatGt(adjr2[TrialOf(i, d)], adjr2[TrialOf(i, chosen[i])])

\* C1, amended: in every round the appended factor is a not-yet-chosen
\* eligible candidate whose trial set keeps at least min_obs complete rows,
\* and it attains the largest trial adjusted R-squared among the not-yet-chosen
\* eligible candidates whose trial sets keep at least min_obs complete rows.
C1_BestAmongFitted ==
    InRounds =>
        \A i \in 1..Len(chosen) :
            /\ chosen[i] \in Fitted(i)
            /\ \A d \in Fitted(i) :
                  ~FloatGt(adjr2[TrialOf(i, d)], adjr2[TrialOf(i, chosen[i])])

\* A round appended a factor that beat another fitted candidate.
C1_Witness ==
    /\ InRounds
    /\ \E i \in 1..Len(chosen) :
         \E d \in Fitted(i) :
            FloatGt(adjr2[TrialOf(i, chosen[i])], adjr2[TrialOf(i, d)])

\* C2: when several candidates of a round share the best adjusted R-squared,
\* the one that comes first in all_candidates is the one appended.
C2_FirstWinsTies ==
    InRounds =>
        \A i \in 1..Len(chosen) :
            \A d \in Fitted(i) :
                adjr2[TrialOf(i, d)] = adjr2[TrialOf(i, chosen[i])] =>
                    IndexOf(all_candidates, chosen[i]) <= IndexOf(all_candidates, d)

\* A round in which two fitted candidates tied for the best.
C2_Witness ==
    /\ InRounds
    /\ \E i \in 1..Len(chosen) :
         \E d \in Fitted(i) \ {chosen[i]} :
            adjr2[TrialOf(i, d)] = adjr2[TrialOf(i, chosen[i])]

RECURSIVE FirstNotIn(_, _, _)
FirstNotIn(s, ch, n) ==
    IF n <= 0 \/ s = <<>> THEN {}
    ELSE IF Head(s) \in ch THEN FirstNotIn(Tail(s), ch, n)
    ELSE {Head(s)} \cup FirstNotIn(Tail(s), ch, n - 1)

\* C4, as claimed: when the rounds end with fewer than min_factors factors,
\* the returned list keeps every factor the rounds chose and adds the first
\* eligible candidates in priority order until min_factors is reached or the
\* eligible candidates run out.
C4_FallbackPads ==
    [][(pc = "pad" /\ pc' = "done" /\ Len(chosen) < min_factors) =>
          Range(chosen') =
             Range(chosen) \cup FirstNotIn(Available(candidate_df, min_obs),
                                          Range(chosen), min_factors - Len(chosen))]_vars

----------------------------------------------------------------------------
(* Claims about fetch_all_external_factors *)

Sources == {"FRED", "AQR"}

\* The source's fetch raised in the call with outcome n.
FetchFailed(src, n, s) ==
    IF src = "FRED" THEN FredFetched(n, s) = NoData ELSE AqrFetched(n, s) = NoData

TableOf(src) == IF src = "FRED" THEN fred ELSE aqr

FileOf(src) == IF src = "FRED" THEN fred_file ELSE aqr_file

LastOk(src) == IF src = "FRED" THEN last_ok.fred ELSE last_ok.aqr

NextOut(ffetched, afetched, wf, wa, ff, af) ==
    FetchAllOf(ffetched, afetched, wf, wa, ff, af, TRUE, start, jkp_src).out

C7_FailReturnsLastFetched ==
    (fstatus = "returned" /\ cache_dir) =>
       \A src \in Sources :
          (FetchFailed(src, net, start) /\ LastOk(src) # NoData) =>
             TableOf(src) = LastOk(src)

\* The second half of C7: a call in which a source's fetch fails leaves the
\* source's cache file as it was.
FailedFetchKeepsCache ==
    [][\A src \in Sources :
          FetchFailed(src, net', start) => FileOf(src)' = FileOf(src)]_vars

----------------------------------------------------------------------------
(* Claims about the entry points *)

REPORT_MD == "analysis_global_macro.md"

\* The input files a script cannot do without
RequiredInputs(s) ==
    IF s = "run_analysis" THEN {FUND_XLSX, FF5_PARQUET} ELSE {InputName(s)}

\* Those of them that are in no folder
AbsentInputs == {name \in RequiredInputs(script) : \A f \in files : f[2] # name}

C9_MissingInputStops ==
    (script # "none" /\ AbsentInputs # {}) =>
        /\ written = {}
        /\ spc \in {"start", "error"}
        /\ spc = "start" => ENABLED ScriptsNext

\* run_analysis ended with an error, nothing written: the fund workbook was
\* there and the factor file was not.
C9_Witness ==
    /\ script = "run_analysis"
    /\ <<"data", FUND_XLSX>> \in files
    /\ AbsentInputs = {FF5_PARQUET}
    /\ spc = "error"
    /\ written = {}

\* The sample of the i-th statistics table of the run, for column c: the
\* complete rows of full, df_30, df_prior in Q1_1; the rows of df_full or
\* df_recent in which c has a value in Q1_2.
SampleOf(i, c) ==
    IF script = "Q1_1"
       THEN LET sub == Subsamples(data)
            IN  CompleteRows(data, IF i = 1 THEN sub.full
                                   ELSE IF i = 2 THEN sub.df_30 ELSE sub.df_prior)
       ELSE OwnRows(data, c,
                    IF i \in {2, 4} /\ START_YEAR \in data.years
                       THEN {y \in data.years : y >= START_YEAR}
                       ELSE data.years)

\* The sample volatility of column c is exactly zero: two or more values,
\* all the same.
ZeroVol(i, c) ==
    /\ Cardinality(SampleOf(i, c)) >= 2
    /\ \A x, y \in SampleOf(i, c) : data.col[c][x] = data.col[c][y]

\* The sample volatility of column c is a number other than zero.
SomeVol(i, c) == \E x, y \in SampleOf(i, c) : data.col[c][x] # data.col[c][y]

\* excess / vol for column c of the i-th table
UsualSharpe(i, c) ==
    [num |-> IF script = "Q1_1" THEN GeoExcess(data, c, SampleOf(i, c))
             ELSE MeanExcess(data, c, SampleOf(i, c)),
     den |-> Std(data.col[c], SampleOf(i, c))]

\* C10: in every table stats_table or summary_stats returned, an asset
\* whose sample volatility is exactly zero has Sharpe ratio NaN, the call
\* did not raise, and an asset whose volatility is not zero has its excess
\* return over its volatility as Sharpe ratio.
C10_ZeroVolSharpeNaN ==
    script \in {"Q1_1", "Q1_2"} =>
        \A i \in 1..Len(stats) :
          /\ (\E c \in DOMAIN data.col : ZeroVol(i, c)) => stats[i] # Raised
          /\ stats[i] # Raised =>
                \A c \in DOMAIN stats[i] :
                  /\ ZeroVol(i, c) => stats[i][c].Sharpe_Ratio = FNaN
                  /\ SomeVol(i, c) => stats[i][c].Sharpe_Ratio = UsualSharpe(i, c)

\* Q1_1 is done; over the full sample SP500 has zero volatility and an
\* excess return other than zero, its Sharpe ratio is NaN, and TBill has a
\* Sharpe ratio that is a number.
C10_Witness ==
    /\ script = "Q1_1"
    /\ spc = "done"
    /\ ZeroVol(1, "SP500")
    /\ GeoExcess(data, "SP500", SampleOf(1, "SP500")).sum
          # GeoExcess(data, "SP500", SampleOf(1, "SP500")).rfsum
    /\ stats[1]["SP500"].Sharpe_Ratio = FNaN
    /\ SomeVol(1, "TBill")
    /\ stats[1]["TBill"].Sharpe_Ratio = UsualSharpe(1, "TBill")

\* The same in Q1_2: a column of zero volatility beside one with a Sharpe
\* ratio that is a number.
SummaryStatsZeroVol ==
    /\ script = "Q1_2"
    /\ spc = "done"
    /\ ZeroVol(2, "GlobalEquityLargeCap")
    /\ stats[2]["GlobalEquityLargeCap"].Excess_Return.sum
          # stats[2]["GlobalEquityLargeCap"].Excess_Return.rfsum
    /\ stats[2]["GlobalEquityLargeCap"].Sharpe_Ratio = FNaN
    /\ SomeVol(2, "MixedAllocation")
    /\ stats[2]["MixedAllocation"].Sharpe_Ratio = UsualSharpe(2, "MixedAllocation")

----------------------------------------------------------------------------
(* Claims about stats_table and the Question 1 mains *)

\* The rows of the frame the i-th stats_table call of Q1_1 main is given:
\* full, df_30, df_prior.
Q11Rows(i) ==
    LET sub == Subsamples(data)
    IN  IF i = 1 THEN sub.full ELSE IF i = 2 THEN sub.df_30 ELSE sub.df_prior

\* Year y has a missing value in some column of the table.
MissingSomewhere(y) == \E c \in DOMAIN data.col : data.col[c][y] = NA

\* C11 as stated: the periods left out of an asset's statistics are exactly
\* those in which the asset's own value is missing, so the number of
\* periods n behind its annualized return is the number of its own values.
C11_OwnExclusion ==
    script = "Q1_1" =>
        \A i \in 1..Len(stats) :
          stats[i] # Raised =>
            \A c \in DOMAIN stats[i] :
              stats[i][c].Annualized_Return.n =
                  Cardinality({y \in Q11Rows(i) : data.col[c][y] # NA})

\* C11 amended: the periods left out of every asset's statistics are those
\* in which any asset column is missing; the annualized return and the
\* volatility of each asset are those of its values in the other periods.
C11_JointExclusion ==
    script = "Q1_1" =>
        \A i \in 1..Len(stats) :
          stats[i] # Raised =>
            \A c \in DOMAIN stats[i] :
              LET used == {y \in Q11Rows(i) : ~MissingSomewhere(y)}
                  vals == {data.col[c][y] : y \in used}
              IN  /\ stats[i][c].Annualized_Return.n = Cardinality(used)
                  /\ DOMAIN stats[i][c].Annualized_Return.prod = vals
                  /\ \A v \in vals :
                        stats[i][c].Annualized_Return.prod[v] =
                            Cardinality({y \in used : data.col[c][y] = v})
                  /\ Cardinality(vals) = 1 /\ Cardinality(used) >= 2
                        => IsZero(stats[i][c].Volatility)
                  /\ Cardinality(vals) > 1 => ~IsZero(stats[i][c].Volatility)

\* Q1_1 is done; Gold is missing in the first year of the full sample only,
\* and SP500, present in every year, is reported over one year fewer than
\* it has values.
C11_Witness ==
    /\ script = "Q1_1"
    /\ spc = "done"
    /\ data.years = AllYears
    /\ data.col["Gold"][1] = NA
    /\ \A y \in AllYears \ {1} : ~MissingSomewhere(y)
    /\ stats[1]["SP500"].Annualized_Return.n = NYears - 1

----------------------------------------------------------------------------
(* Claims about run_analysis.main *)

MainFitted == script = "run_analysis" /\ spc \in {"modelled", "hfgm", "saved", "done"}

\* The dates of econ_df, of greedy_df and of ff5_same (lines 123, 133, 143).
EconDates == DropnaRows(MacroDf(out), Range(econ_factors))

GreedyDates == DropnaRows(MacroDf(out), Range(greedy_factors))

Ff5SameDates == Months \cap (EconDates \cup GreedyDates)

\* C12: the three models of the comparison table (FF5 same window,
\* Economist's Macro, Greedy Best-Fit) are fitted on the same set of dates.
C12_SameDates ==
    MainFitted => EconDates = GreedyDates /\ Ff5SameDates = EconDates


(* Claims about the dates fetch_all_external_factors returns *)
OutDates == [i \in 1..Len(out.rows) |-> out.rows[i].date]

\* C13: the dates of the table fetch_all_external_factors returns are strictly
\* increasing, so that no month is on more than one row, whether the sources
\* were fetched online or read from the cache.
C13_StrictlyIncreasingDates ==
    fstatus = "returned" =>
        \A i \in 1..(Len(out.rows) - 1) : OutDates[i] < OutDates[i + 1]


(* Claims about the numbers stats_table reports *)
ExampleReturns == (10 :> 1) @@ (-5 :> 1) @@ (8 :> 1)

ExampleCall ==
    /\ script = "stats_table"
    /\ spc = "done"
    /\ stats[1] # Raised
    /\ stats[1]["SP500"].Annualized_Return = [prod |-> ExampleReturns, n |-> 3]

\* C14 as stated: for the three annual returns 0.10, -0.05 and 0.08 the
\* annualized return stats_table reports, rounded to four decimals, is 0.0405.
C14_ExampleIs405 ==
    ExampleCall => AnnualizedReturn(stats[1]["SP500"].Annualized_Return) = 405

\* C14 amended: for the three annual returns 0.10, -0.05 and 0.08, in any
\* order, the annualized return stats_table reports is
\* (1.10 x 0.95 x 1.08)^(1/3) - 1, which is 0.0412 at four decimals.
C14_ExampleIs412 ==
    ExampleCall => AnnualizedReturn(stats[1]["SP500"].Annualized_Return) = 412

\* stats_table was called on the returns 0.10, -0.05, 0.08 in this order.
C14_Witness ==
    /\ ExampleCall
    /\ data.col["SP500"] = <<10, -5, 8>>


(* Claims about the periods of the Question 1 mains *)
\* The k most recent years of the loaded table
MostRecent(k) == {y \in data.years : Cardinality({z \in data.years : z > y}) < k}

\* The prior period of lines 69-70 has the rows that line 71 asks for
PriorLongEnough ==
    LET full == Subsamples(data).full
    IN  Cardinality({y \in data.years :
                       y >= MinOf(full) /\ y < MaxOf(full) - LastSpan}) >= MinPriorLen

\* C15: in Q1_1 main, when the prior period is long enough, the statistics of
\* the 'last 30 years' subsample are computed from the 30 most recent years
\* of the loaded data (LastSpan years here), and from no other year.
C15_LastSpanYears ==
    (script = "Q1_1" /\ Len(stats) >= 2 /\ PriorLongEnough /\ stats[2] # Raised) =>
        \A c \in DOMAIN stats[2] :
            stats[2][c].Annualized_Return.n =
                Cardinality(CompleteRows(data, MostRecent(LastSpan)))


\* C17: in Q1_6 main, the cumulative series and the annualised returns are
\* computed from the rows of the years START_YEAR through END_YEAR (2010
\* through 2024) only, and n counts those rows.
C17_WindowOnly ==
    (script = "Q1_6" /\ spc = "done") =>
        /\ stats[1].years \subseteq START_YEAR..END_YEAR
        /\ stats[1].n = Cardinality(data.years \cap START_YEAR..END_YEAR)
        /\ DOMAIN stats[1].global.cum \subseteq START_YEAR..END_YEAR

\* C16: in Q1_7 main, the figures of VT and those of the two MPF categories
\* are computed over the same years, START_YEAR through END_YEAR (2010
\* through 2024), with the same number of periods, when the MPF file has a
\* row for each of these years.
C16_SameYears ==
    (script = "Q1_7" /\ spc = "done" /\ START_YEAR..END_YEAR \subseteq data.years) =>
        /\ stats[1].years = stats[2].years_mpf
        /\ stats[1].n_years = stats[2].n_mpf
        /\ stats[1].years = START_YEAR..END_YEAR


(* Claims about the list _pick_best_model returns *)
\* The eligible candidates not yet in chosen
Remaining == Range(Available(candidate_df, min_obs)) \ Range(chosen)

\* Those whose trial set keeps at least min_obs complete rows and whose fit
\* in the fits f is a number
Addable(f) ==
    {d \in Remaining :
        /\ Cardinality(DropnaRows(candidate_df, Range(chosen) \cup {d})) >= min_obs
        /\ f[Range(chosen) \cup {d}] # NaN}

\* C18 as stated: a round that starts while a not-yet-chosen eligible
\* candidate remains adds a factor, so that the rounds end with fewer than
\* max_factors factors only when no candidate remained.
C18_RemainingIsAdded ==
    [][(pc = "greedy" /\ Remaining # {}) => Len(chosen') = Len(chosen) + 1]_vars

\* C18 amended: a round adds a factor exactly when a not-yet-chosen eligible
\* candidate remains whose trial set keeps at least min_obs complete rows and
\* whose adjusted R-squared is a number (not NaN, not -inf), also when the
\* best adjusted R-squared of the round is lower than that of the previous
\* round; the rounds end with fewer than max_factors factors only after a
\* round in which no such candidate remained.
C18_AddableIsAdded ==
    [][pc = "greedy" =>
          IF Addable(adjr2') # {}
             THEN /\ Len(chosen') = Len(chosen) + 1
                  /\ chosen'[Len(chosen')] \in Addable(adjr2')
                  /\ SubSeq(chosen', 1, Len(chosen)) = chosen
             ELSE /\ chosen' = chosen
                  /\ pc' = "pad"
                  /\ Len(chosen) < max_factors]_vars

\* The second round added a factor although its best adjusted R-squared was
\* lower than that of the first round.
C18_Witness ==
    /\ InRounds
    /\ Len(chosen) >= 2
    /\ adjr2[TrialOf(3, chosen[2])] < adjr2[TrialOf(2, chosen[1])]


\* C19: for min_factors <= max_factors the returned list, from the greedy
\* rounds or from the minimum-size fallback, has no duplicate, holds only
\* columns of the table with more than min_obs non-missing values, and has
\* at most max_factors entries.
C19_ReturnedListSound ==
    (pc = "done" /\ min_factors <= max_factors) =>
        /\ \A i, j \in 1..Len(chosen) : chosen[i] = chosen[j] => i = j
        /\ \A i \in 1..Len(chosen) :
              /\ chosen[i] \in DOMAIN candidate_df \ {"fund_excess"}
              /\ Cardinality(candidate_df[chosen[i]]) > min_obs
        /\ Len(chosen) <= max_factors

\* The rounds chose one factor, fewer than min_factors, and the call
\* returned the fallback list of min_factors factors.
C19_Witness ==
    /\ pc = "done"
    /\ min_factors <= max_factors
    /\ rnd = 1
    /\ rnd < min_factors
    /\ Len(chosen) = min_factors


\* C20: whenever _pick_best_model returns a non-empty list, the table has at
\* least min_obs rows in which fund_excess and every returned factor are
\* present.
C20_ReturnedKeepsMinObs ==
    (pc = "done" /\ chosen # <<>>) =>
        Cardinality(DropnaRows(candidate_df, Range(chosen))) >= min_obs


(* Claims about the AQR cache and failed cache writes *)
AqrFromCache == "AQR online failed; loaded local cache." \in Range(warnings)

\* At least one but not all of the four AQR downloads succeeded
AqrPartial == net.aqr # {} /\ net.aqr # Range(AQR_KEYS)

\* The columns of the AQR workbooks in the set keys
ColsOfKeys(keys) == UNION {Range(AqrCols(k)) : k \in keys}

WriteRaised(src, n) == IF src = "FRED" THEN ~n.wfred ELSE ~n.waqr

\* What the source's fetch returned in the call with outcome n
FetchedOf(src, n, s) == IF src = "FRED" THEN FredFetched(n, s) ELSE AqrFetched(n, s)

====
